---------------------------- MODULE Spec2Model ----------------------------
(***************************************************************************)
(* Model of the LRU cache of src/cache.go (LRUCache, with expiry), of its  *)
(* earlier variant src/unnamed/part_001 (no expiry, no key in the item)    *)
(* and of the sharding router of src/unnamed/part_000 (ComboLRUCache).     *)
(*                                                                         *)
(* Representation.  A *list.Element of a shard is identified by the key it *)
(* was created for: a shard creates one element per key it holds, and the  *)
(* map never holds two elements for one key.  store maps a key to the item *)
(* its element points to (store[key] is elm, elm.Value is the item); l is   *)
(* the linked list, front first, as the sequence of the linked elements.   *)
(* An element that was removed from the list but is still referenced by    *)
(* the map (possible in part_001 only) is a key of store that is not in l. *)
(***************************************************************************)
EXTENDS Integers, Sequences, FiniteSets, TLC

\* ------------------------------------------------------------------ bounds
MaxSz == 2          \* capacities tried: 1..MaxSz
MaxTime == 2        \* the clock runs 0..MaxTime

Keys == {"A", "B", "C"}
Vals == {"1", "2", "3"}
\* expiry durations tried, in clock ticks: none, and one tick
Expiries == {0, 1}

\* ------------------------------------------------------------- Go values
Nil == "nil"
ErrCacheNotInit == "Cache is not init"
ErrItemNotFound == "Item not found in cache"

\* A nil *LRUCache: the receiver of a call on a cache that was never constructed.
NilCache == [nil |-> TRUE]

\* A map with no key.
EmptyMap == [k \in {} |-> Nil]

\* ------------------------------------------------------- container/list
Range(s) == {s[i] : i \in 1..Len(s)}

\* l.Back(): the last element, nil on an empty list.
Back(l) == IF Len(l) = 0 THEN Nil ELSE l[Len(l)]

\* l.PushFront(v)
PushFront(l, e) == <<e>> \o l

\* l.Remove(e): nothing happens when e is not an element of l.
Remove(l, e) == SelectSeq(l, LAMBDA x : x # e)

\* l.MoveToFront(e): nothing happens when e is not an element of l.
MoveToFront(l, e) == IF e \in Range(l) THEN <<e>> \o Remove(l, e) ELSE l

\* delete(m, key)
MapDelete(m, key) == [k \in DOMAIN m \ {key} |-> m[k]]

\* m[key] = v
MapPut(m, key, v) == [k \in DOMAIN m \cup {key} |-> IF k = key THEN v ELSE m[k]]

\* ------------------------------------------------------------- sync.Mutex
\* The Mutex embedded in a shard: its holder (Nil when unlocked) and, while
\* it is held, the shard as the holder found it.
Unlocked == [holder |-> Nil, pre |-> [none |-> TRUE]]

\* c.Lock() by goroutine t, which finds the shard as cache.
Mutex_Lock(t, cache) == [holder |-> t, pre |-> cache]

\* (mutant) a return path on which the deferred Unlock was never registered.
Mutex_Unlock_Forgotten(lk) == lk

\* c.Unlock()
Mutex_Unlock(lk) == Unlocked

\* ------------------------------------------------------ cache.go: LRUCache
NewLRUCache(sz, expiry) ==
    [sz |-> sz, count |-> 0, expiry |-> expiry, store |-> EmptyMap, l |-> <<>>]

\* removeItem removes an item from the map and list.
removeItem(c, elm) ==
    IF elm = Nil THEN c
    ELSE [c EXCEPT !.store = MapDelete(@, elm),
                   !.l = Remove(@, elm),
                   !.count = @ - 1]

\* (mutant) updateItem that moves the element but does not store the value.
updateItem_KeepsOldValue(c, elm, val) ==
    [c EXCEPT !.l = MoveToFront(@, elm)]

\* updateItem updates the value of the item in elm and moves it to the front.
updateItem(c, elm, val) ==
    [c EXCEPT !.store[elm].val = val,
              !.l = MoveToFront(@, elm)]

\* (mutant) addItem that takes the first element out of a full list, not the last.
addItem_EvictsFront(c, key, val, t) ==
    LET itm == [key |-> key, val |-> val, ts |-> t]
        c1 == IF c.count >= c.sz
              THEN removeItem(c, IF Len(c.l) = 0 THEN Nil ELSE c.l[1])
              ELSE c
    IN  [c1 EXCEPT !.l = PushFront(@, key),
                   !.store = MapPut(@, key, itm),
                   !.count = @ + 1]

\* addItem, first half: a full list loses its last element.
addItem_Evict(c) == IF c.count >= c.sz THEN removeItem(c, Back(c.l)) ELSE c

\* addItem, second half: the new item is pushed to the front and recorded.
addItem_Push(c, key, val, t) ==
    [c EXCEPT !.l = PushFront(@, key),
              !.store = MapPut(@, key, [key |-> key, val |-> val, ts |-> t]),
              !.count = @ + 1]

\* (mutant) addItem that first drops every item older than the expiry.
addItem_SweepsExpired(c, key, val, t) ==
    LET itm == [key |-> key, val |-> val, ts |-> t]
        old == {k \in DOMAIN c.store : c.expiry > 0 /\ t - c.store[k].ts > c.expiry}
        c0 == [c EXCEPT !.store = [k \in DOMAIN c.store \ old |-> c.store[k]],
                        !.l = SelectSeq(@, LAMBDA x : x \notin old),
                        !.count = @ - Cardinality(old)]
        c1 == IF c0.count >= c0.sz THEN removeItem(c0, Back(c0.l)) ELSE c0
    IN  [c1 EXCEPT !.l = PushFront(@, key),
                   !.store = MapPut(@, key, itm),
                   !.count = @ + 1]

\* addItem adds a new item to the front of the list; a full list loses its last.
addItem(c, key, val, t) ==
    LET itm == [key |-> key, val |-> val, ts |-> t]
        c1 == IF c.count >= c.sz THEN removeItem(c, Back(c.l)) ELSE c
    IN  [c1 EXCEPT !.l = PushFront(@, key),
                   !.store = MapPut(@, key, itm),
                   !.count = @ + 1]

\* (mutant) Get that compares the age with the expiry even when the expiry is 0.
LRUCache_Get_NoTTLGuard(c, key, t) ==
    IF key \notin DOMAIN c.store
    THEN [c |-> c, res |-> Nil, err |-> ErrItemNotFound]
    ELSE LET itm == c.store[key]
             val == itm.val
         IN  [c |-> IF t - itm.ts > c.expiry
                    THEN removeItem(c, key)
                    ELSE updateItem(c, key, val),
              res |-> val, err |-> Nil]

\* Get: the cache afterwards, the value and the error returned.
LRUCache_Get(c, key, t) ==
    IF c = NilCache
    THEN [c |-> c, res |-> Nil, err |-> ErrCacheNotInit]
    ELSE IF key \notin DOMAIN c.store
    THEN [c |-> c, res |-> Nil, err |-> ErrItemNotFound]
    ELSE LET itm == c.store[key]
             val == itm.val
         IN  [c |-> IF c.expiry > 0 /\ t - itm.ts > c.expiry
                    THEN removeItem(c, key)
                    ELSE updateItem(c, key, val),
              res |-> val, err |-> Nil]

\* (mutant) Set that adds an item whether or not the map holds the key.
LRUCache_Set_AlwaysAdds(c, key, val, t) ==
    [c |-> addItem(c, key, val, t), err |-> Nil]

\* (mutant) Set that reports success on a nil receiver.
LRUCache_Set_NilSucceeds(c, key, val, t) ==
    IF c = NilCache
    THEN [c |-> c, err |-> Nil]
    ELSE IF key \notin DOMAIN c.store
    THEN [c |-> addItem(c, key, val, t), err |-> Nil]
    ELSE [c |-> updateItem(c, key, val), err |-> Nil]

\* Set: the cache afterwards and the error returned.
LRUCache_Set(c, key, val, t) ==
    IF c = NilCache
    THEN [c |-> c, err |-> ErrCacheNotInit]
    ELSE IF key \notin DOMAIN c.store
    THEN [c |-> addItem(c, key, val, t), err |-> Nil]
    ELSE [c |-> updateItem(c, key, val), err |-> Nil]

\* Items: the length of the list, and 0 on a nil receiver.
LRUCache_Items(c) == IF c = NilCache THEN 0 ELSE Len(c.l)

\* PrintAll: the values of the list's elements, front to back.
LRUCache_PrintAll(c) == [i \in 1..Len(c.l) |-> c.store[c.l[i]].val]

\* ------------------------------------------- unnamed/part_001: LRUCache
\* The variant without expiry: an item is a value and a timestamp, the
\* cache has no expiry field, and no method reports the number of items.
NewLRUCache_001(sz) ==
    [sz |-> sz, count |-> 0, store |-> EmptyMap, l |-> <<>>]

\* updateItem updates the timestamp and value of the item in elm and moves it to the front.
updateItem_001(c, elm, val, t) ==
    [c EXCEPT !.store[elm].val = val,
              !.store[elm].ts = t,
              !.l = MoveToFront(@, elm)]

\* addItem: the new element's item, and the cache with the element pushed to
\* the front of the list after a full list lost its last element.  The map
\* is left as it is: the caller records the new element in it.
addItem_001(c, key, val, t) ==
    LET itm == [val |-> val, ts |-> t]
        last == Back(c.l)
        c1 == IF c.count >= c.sz /\ last # Nil
              THEN [c EXCEPT !.l = Remove(@, last), !.count = @ - 1]
              ELSE c
    IN  [c |-> [c1 EXCEPT !.l = PushFront(@, key), !.count = @ + 1],
         itm |-> itm]

LRUCache_Get_001(c, key, t) ==
    IF key \notin DOMAIN c.store
    THEN [c |-> c, res |-> Nil, err |-> ErrItemNotFound]
    ELSE LET val == c.store[key].val
         IN  [c |-> updateItem_001(c, key, val, t), res |-> val, err |-> Nil]

LRUCache_Set_001(c, key, val, t) ==
    IF key \notin DOMAIN c.store
    THEN LET a == addItem_001(c, key, val, t)
         IN  [c |-> [a.c EXCEPT !.store = MapPut(@, key, a.itm)], err |-> Nil]
    ELSE [c |-> updateItem_001(c, key, val, t), err |-> Nil]

\* -------------------------------------------------- LRUCache.Del (not in src)
\* part_000 calls Del on a shard; the method is in none of the files.  From
\* the specification: the entry leaves both structures if present, and the
\* call fails with ErrItemNotFound otherwise; on a cache that was never
\* constructed it fails with ErrCacheNotInit.
LRUCache_Del(c, key) ==
    IF c = NilCache
    THEN [c |-> c, err |-> ErrCacheNotInit]
    ELSE IF key \notin DOMAIN c.store
    THEN [c |-> c, err |-> ErrItemNotFound]
    ELSE [c |-> removeItem(c, key), err |-> Nil]

\* --------------------------------------- unnamed/part_000: ComboLRUCache
\* (mutant) the constructor of combo.go, which passes no expiry to the shards.
NewComboLRUCache_NoExpiry(sz, bs, expiry, h) ==
    LET bs1 == IF bs < 1 THEN 1 ELSE bs
        sz1 == IF sz < bs1 THEN bs1 ELSE sz
    IN  [hash |-> h,
         caches |-> [i \in 0..(bs1 - 1) |-> NewLRUCache(sz1 \div bs1, 0)]]

\* (mutant) the constructor without the line that raises sz to bs.
NewComboLRUCache_SizeNotRaised(sz, bs, expiry, h) ==
    LET bs1 == IF bs < 1 THEN 1 ELSE bs
    IN  [hash |-> h,
         caches |-> [i \in 0..(bs1 - 1) |-> NewLRUCache(sz \div bs1, expiry)]]

\* NewComboLRUCache: bs shards of capacity sz / bs each, after bs was raised
\* to 1 and sz to bs.  caches is the slice, indexed from 0.
NewComboLRUCache(sz, bs, expiry, h) ==
    LET bs1 == IF bs < 1 THEN 1 ELSE bs
        sz1 == IF sz < bs1 THEN bs1 ELSE sz
    IN  [hash |-> h,
         caches |-> [i \in 0..(bs1 - 1) |-> NewLRUCache(sz1 \div bs1, expiry)]]

\* len(combo.caches)
NumCaches(combo) == Cardinality(DOMAIN combo.caches)

\* (mutant) routeKey that spreads the keys by the load of the first shard.
routeKey_ByLoad(combo, key) ==
    (combo.hash[key] + combo.caches[0].count) % NumCaches(combo)

\* routeKey: the index of the shard the hash function routes key to.
routeKey(combo, key) == combo.hash[key] % NumCaches(combo)

\* Get, Del and Set route the key and hand the call to the shard.
ComboLRUCache_Get(combo, key, t) ==
    LET idx == routeKey(combo, key)
        r == LRUCache_Get(combo.caches[idx], key, t)
    IN  [combo |-> [combo EXCEPT !.caches[idx] = r.c], res |-> r.res, err |-> r.err]

\* (mutant) Del that discards the shard's error.
ComboLRUCache_Del_DropsError(combo, key) ==
    LET idx == routeKey(combo, key)
        r == LRUCache_Del(combo.caches[idx], key)
    IN  [combo |-> [combo EXCEPT !.caches[idx] = r.c], err |-> Nil]

ComboLRUCache_Del(combo, key) ==
    LET idx == routeKey(combo, key)
        r == LRUCache_Del(combo.caches[idx], key)
    IN  [combo |-> [combo EXCEPT !.caches[idx] = r.c], err |-> r.err]

\* (mutant) Set that hands every key to the first shard.
ComboLRUCache_Set_FirstShard(combo, key, val, t) ==
    LET r == LRUCache_Set(combo.caches[0], key, val, t)
    IN  [combo |-> [combo EXCEPT !.caches[0] = r.c], err |-> r.err]

ComboLRUCache_Set(combo, key, val, t) ==
    LET idx == routeKey(combo, key)
        r == LRUCache_Set(combo.caches[idx], key, val, t)
    IN  [combo |-> [combo EXCEPT !.caches[idx] = r.c], err |-> r.err]

\* Items: the sum of the shards' Items, taken shard by shard.
RECURSIVE SumItems(_, _)
SumItems(caches, n) ==
    IF n = 0 THEN 0 ELSE SumItems(caches, n - 1) + LRUCache_Items(caches[n - 1])

ComboLRUCache_Items(combo) == SumItems(combo.caches, NumCaches(combo))

\* ---------------------------------------------------------------- state
VARIABLES
    c,        \* the single-shard cache under test
    now,      \* the clock read by time.Now() and time.Since()
    ret,      \* the last call made, what it returned and what it was seen to do
    hist,     \* history: keys in the order of their last call that returned no error, latest first
    inserted, \* history: the <<key, val>> pairs Set so far, oldest first, while every call
              \* so far was a Set of a key never Set before; Mixed afterwards
    evicted,  \* history: keys a Set of another key unlinked from the list, not Set again since
    live,     \* history: the value last Set for each key whose element is linked in a list
    combo,    \* the router under test (NoCache where the cache under test is c)
    bret,     \* what the same call returned on the bare cache c driven beside the router
    args,     \* the sz and bs the router was constructed with (NoArgs where they are not observed)
    pc,       \* each goroutine's call in progress and its position in it (NoThreads in one-caller runs)
    lock      \* each shard's sync.Mutex: its holder and the shard as the holder found it

vars == <<c, now, ret, hist, inserted, evicted, live, combo, bret, args, pc, lock>>

NoArgs == [none |-> TRUE]
NoThreads == [none |-> TRUE]

\* No cache of that kind is under test.
NoCache == [none |-> TRUE]

Touch(h, key) == <<key>> \o SelectSeq(h, LAMBDA x : x # key)

\* The value of inserted once a call was not the Set of a new key.
Mixed == <<<<Nil, Nil>>>>

InsertedKeys == {inserted[i][1] : i \in 1..Len(inserted)}

\* What a caller and an observer of the structures record of one call:
\*   at:      the time of the call
\*   had:     the key was in the map when the call was made
\*   aged:    the key's item was older than the expiry when the call was made
\*   gone:    the keys the call took out of the map
\*   unlinked: the elements the call took out of the list
\*   prevSet: for a Get, the value of the Set of the same key made just before it
Call(op, key, val, res, err, before, after) ==
    [op |-> op, key |-> key, val |-> val, res |-> res, err |-> err, at |-> now,
     had |-> key \in DOMAIN before.store,
     aged |-> /\ key \in DOMAIN before.store
              /\ "expiry" \in DOMAIN before
              /\ before.expiry > 0
              /\ now - before.store[key].ts > before.expiry,
     gone |-> DOMAIN before.store \ DOMAIN after.store,
     unlinked |-> Range(before.l) \ Range(after.l),
     prevSet |-> IF op = "Get" /\ ret.op = "Set" /\ ret.key = key THEN ret.val ELSE Nil]

NoCall ==
    [op |-> "New", key |-> Nil, val |-> Nil, res |-> Nil, err |-> Nil, at |-> 0,
     had |-> FALSE, aged |-> FALSE, gone |-> {}, unlinked |-> {}, prevSet |-> Nil]

\* The histories after a call that took the cache from before to after.
Observe(op, key, val, err, before, after) ==
    /\ hist' = IF err = Nil /\ op \in {"Get", "Set"} THEN Touch(hist, key) ELSE hist
    /\ inserted' = IF op = "Set" /\ inserted # Mixed /\ key \notin InsertedKeys
                   THEN Append(inserted, <<key, val>>)
                   ELSE Mixed
    /\ evicted' = IF op = "Set"
                  THEN (evicted \cup (Range(before.l) \ Range(after.l))) \ {key}
                  ELSE evicted
    /\ live' = [k \in Range(after.l) |->
                   IF op = "Set" /\ k = key THEN val
                   ELSE IF k \in DOMAIN live THEN live[k] ELSE Nil]

Init ==
    /\ \E sz \in 1..MaxSz, expiry \in Expiries : c = NewLRUCache(sz, expiry)
    /\ now = 0
    /\ ret = NoCall
    /\ hist = <<>>
    /\ inserted = <<>>
    /\ evicted = {}
    /\ live = EmptyMap
    /\ combo = NoCache
    /\ bret = NoCall
    /\ args = NoArgs
    /\ pc = NoThreads
    /\ lock = NoThreads

\* A caller calls c.Get(key).
Get(key) ==
    LET r == LRUCache_Get(c, key, now)
    IN  /\ c' = r.c
        /\ ret' = Call("Get", key, Nil, r.res, r.err, c, r.c)
        /\ Observe("Get", key, Nil, r.err, c, r.c)
        /\ UNCHANGED <<now, combo, bret, args, pc, lock>>

\* A caller calls c.Set(key, val).
Set(key, val) ==
    LET r == LRUCache_Set(c, key, val, now)
    IN  /\ c' = r.c
        /\ ret' = Call("Set", key, val, Nil, r.err, c, r.c)
        /\ Observe("Set", key, val, r.err, c, r.c)
        /\ UNCHANGED <<now, combo, bret, args, pc, lock>>

\* A caller calls c.Items().
Items ==
    /\ ret' = Call("Items", Nil, Nil, LRUCache_Items(c), Nil, c, c)
    /\ Observe("Items", Nil, Nil, Nil, c, c)
    /\ UNCHANGED <<c, now, combo, bret, args, pc, lock>>

\* Time passes between two calls.
Tick ==
    /\ now < MaxTime
    /\ now' = now + 1
    /\ UNCHANGED <<c, ret, hist, inserted, evicted, live, combo, bret, args, pc, lock>>

Next ==
    \/ \E key \in Keys : Get(key)
    \/ \E key \in Keys, val \in Vals : Set(key, val)
    \/ Items
    \/ Tick

Spec == Init /\ [][Next]_vars

\* ------------------------------------------ the variant of unnamed/part_001
Init_001 ==
    /\ \E sz \in 1..MaxSz : c = NewLRUCache_001(sz)
    /\ now = 0
    /\ ret = NoCall
    /\ hist = <<>>
    /\ inserted = <<>>
    /\ evicted = {}
    /\ live = EmptyMap
    /\ combo = NoCache
    /\ bret = NoCall
    /\ args = NoArgs
    /\ pc = NoThreads
    /\ lock = NoThreads

Get_001(key) ==
    LET r == LRUCache_Get_001(c, key, now)
    IN  /\ c' = r.c
        /\ ret' = Call("Get", key, Nil, r.res, r.err, c, r.c)
        /\ Observe("Get", key, Nil, r.err, c, r.c)
        /\ UNCHANGED <<now, combo, bret, args, pc, lock>>

Set_001(key, val) ==
    LET r == LRUCache_Set_001(c, key, val, now)
    IN  /\ c' = r.c
        /\ ret' = Call("Set", key, val, Nil, r.err, c, r.c)
        /\ Observe("Set", key, val, r.err, c, r.c)
        /\ UNCHANGED <<now, combo, bret, args, pc, lock>>

Next_001 ==
    \/ \E key \in Keys : Get_001(key)
    \/ \E key \in Keys, val \in Vals : Set_001(key, val)
    \/ Tick

Spec_001 == Init_001 /\ [][Next_001]_vars

\* --------------------------------------------- calls on a nil *LRUCache
\* What a caller records of a call whose receiver is nil.
NilCall(op, key, val, res, err) ==
    [op |-> op, key |-> key, val |-> val, res |-> res, err |-> err, at |-> now,
     had |-> FALSE, aged |-> FALSE, gone |-> {}, unlinked |-> {},
     prevSet |-> IF op = "Get" /\ ret.op = "Set" /\ ret.key = key THEN ret.val ELSE Nil]

\* var c *LRUCache, never assigned.
Init_Nil ==
    /\ c = NilCache
    /\ now = 0
    /\ ret = NoCall
    /\ hist = <<>>
    /\ inserted = <<>>
    /\ evicted = {}
    /\ live = EmptyMap
    /\ combo = NoCache
    /\ bret = NoCall
    /\ args = NoArgs
    /\ pc = NoThreads
    /\ lock = NoThreads

Nil_Get(key) ==
    LET r == LRUCache_Get(c, key, now)
    IN  /\ c' = r.c
        /\ ret' = NilCall("Get", key, Nil, r.res, r.err)
        /\ UNCHANGED <<now, hist, inserted, evicted, live, combo, bret, args, pc, lock>>

Nil_Set(key, val) ==
    LET r == LRUCache_Set(c, key, val, now)
    IN  /\ c' = r.c
        /\ ret' = NilCall("Set", key, val, Nil, r.err)
        /\ UNCHANGED <<now, hist, inserted, evicted, live, combo, bret, args, pc, lock>>

Nil_Del(key) ==
    LET r == LRUCache_Del(c, key)
    IN  /\ c' = r.c
        /\ ret' = NilCall("Del", key, Nil, Nil, r.err)
        /\ UNCHANGED <<now, hist, inserted, evicted, live, combo, bret, args, pc, lock>>

\* Items returns an int and nothing else: no error is recorded.
Nil_Items ==
    /\ ret' = NilCall("Items", Nil, Nil, LRUCache_Items(c), Nil)
    /\ UNCHANGED <<c, now, hist, inserted, evicted, live, combo, bret, args, pc, lock>>

Next_Nil ==
    \/ \E key \in Keys : Nil_Get(key)
    \/ \E key \in Keys, val \in Vals : Nil_Set(key, val)
    \/ \E key \in Keys : Nil_Del(key)
    \/ Nil_Items
    \/ Tick

Spec_Nil == Init_Nil /\ [][Next_Nil]_vars

\* ------------------------------------------------ the router of part_000
\* The sizes and shard counts asked for (0 is raised by the constructor),
\* and the hash functions supplied: one that sends every key to one shard,
\* and one that spreads the keys.
ComboVals == {"1", "2"}
SizeInputs == {0, 2, 4}
ShardInputs == {0, 1, 2}
HashFuncs ==
    { [k \in Keys |-> 7],
      [k \in Keys |-> CASE k = "A" -> 4 [] k = "B" -> 9 [] OTHER -> 3] }

\* The keys linked in the list of some shard.
Linked(cb) == UNION {Range(cb.caches[i].l) : i \in DOMAIN cb.caches}

\* The histories after a router call.
ObserveCombo(op, key, val, after) ==
    /\ live' = [k \in Linked(after) |->
                   IF op = "Set" /\ k = key THEN val
                   ELSE IF k \in DOMAIN live THEN live[k] ELSE Nil]
    /\ UNCHANGED <<hist, inserted, evicted>>

\* The router alone.
Init_Combo ==
    /\ \E sz \in SizeInputs, bs \in ShardInputs, expiry \in Expiries, h \in HashFuncs :
          combo = NewComboLRUCache(sz, bs, expiry, h)
    /\ c = NoCache
    /\ now = 0
    /\ ret = NoCall
    /\ bret = NoCall
    /\ args = NoArgs
    /\ pc = NoThreads
    /\ lock = NoThreads
    /\ hist = <<>>
    /\ inserted = <<>>
    /\ evicted = {}
    /\ live = EmptyMap

\* A router of one shard, and beside it a bare cache of the same size and expiry.
Init_Equiv ==
    /\ \E sz \in SizeInputs \ {0}, expiry \in Expiries, h \in HashFuncs :
          /\ combo = NewComboLRUCache(sz, 1, expiry, h)
          /\ c = NewLRUCache(sz, expiry)
    /\ now = 0
    /\ ret = NoCall
    /\ bret = NoCall
    /\ args = NoArgs
    /\ pc = NoThreads
    /\ lock = NoThreads
    /\ hist = <<>>
    /\ inserted = <<>>
    /\ evicted = {}
    /\ live = EmptyMap

\* The <<sz, bs>> asked for where the arguments are observed: negative,
\* zero, a size below the shard count, and a size the shard count does not divide.
SizedArgs == {<<-1, -2>>, <<0, 0>>, <<2, -2>>, <<-1, 2>>, <<0, 2>>, <<1, 2>>, <<3, 2>>}

\* The router alone, and the arguments it was constructed with.
Init_Sized ==
    /\ \E a \in SizedArgs, expiry \in Expiries, h \in HashFuncs :
          /\ combo = NewComboLRUCache(a[1], a[2], expiry, h)
          /\ args = [sz |-> a[1], bs |-> a[2]]
    /\ c = NoCache
    /\ now = 0
    /\ ret = NoCall
    /\ bret = NoCall
    /\ pc = NoThreads
    /\ lock = NoThreads
    /\ hist = <<>>
    /\ inserted = <<>>
    /\ evicted = {}
    /\ live = EmptyMap

\* The bare cache, where there is one, gets the call the router got.
Beside(op, key, val, r) ==
    IF c = NoCache
    THEN UNCHANGED <<c, bret>>
    ELSE /\ c' = r.c
         /\ bret' = Call(op, key, val, r.res, r.err, c, r.c)

\* A caller calls combo.Get(key).
Combo_Get(key) ==
    LET idx == routeKey(combo, key)
        r == ComboLRUCache_Get(combo, key, now)
    IN  /\ combo' = r.combo
        /\ ret' = Call("Get", key, Nil, r.res, r.err, combo.caches[idx], r.combo.caches[idx])
        /\ ObserveCombo("Get", key, Nil, r.combo)
        /\ Beside("Get", key, Nil, LRUCache_Get(c, key, now))
        /\ UNCHANGED <<now, args, pc, lock>>

\* A caller calls combo.Set(key, val).
Combo_Set(key, val) ==
    LET idx == routeKey(combo, key)
        r == ComboLRUCache_Set(combo, key, val, now)
    IN  /\ combo' = r.combo
        /\ ret' = Call("Set", key, val, Nil, r.err, combo.caches[idx], r.combo.caches[idx])
        /\ ObserveCombo("Set", key, val, r.combo)
        /\ Beside("Set", key, val, [c |-> LRUCache_Set(c, key, val, now).c, res |-> Nil,
                                    err |-> LRUCache_Set(c, key, val, now).err])
        /\ UNCHANGED <<now, args, pc, lock>>

\* A caller calls combo.Del(key).
Combo_Del(key) ==
    LET idx == routeKey(combo, key)
        r == ComboLRUCache_Del(combo, key)
    IN  /\ combo' = r.combo
        /\ ret' = Call("Del", key, Nil, Nil, r.err, combo.caches[idx], r.combo.caches[idx])
        /\ ObserveCombo("Del", key, Nil, r.combo)
        /\ Beside("Del", key, Nil, [c |-> LRUCache_Del(c, key).c, res |-> Nil,
                                    err |-> LRUCache_Del(c, key).err])
        /\ UNCHANGED <<now, args, pc, lock>>

\* A caller calls combo.Items().
Combo_Items ==
    /\ ret' = Call("Items", Nil, Nil, ComboLRUCache_Items(combo), Nil,
                   combo.caches[0], combo.caches[0])
    /\ ObserveCombo("Items", Nil, Nil, combo)
    /\ Beside("Items", Nil, Nil, [c |-> c, res |-> LRUCache_Items(c), err |-> Nil])
    /\ UNCHANGED <<combo, now, args, pc, lock>>

Next_Combo ==
    \/ \E key \in Keys : Combo_Get(key)
    \/ \E key \in Keys, val \in ComboVals : Combo_Set(key, val)
    \/ \E key \in Keys : Combo_Del(key)
    \/ Combo_Items
    \/ Tick

Spec_Combo == Init_Combo /\ [][Next_Combo]_vars

Spec_Equiv == Init_Equiv /\ [][Next_Combo]_vars

Spec_Sized == Init_Sized /\ [][Next_Combo]_vars

\* ------------------------------------- goroutines sharing one router
\* Several goroutines call the router of part_000.  A call is a sequence of
\* steps: the router routes the key and calls the shard's method, which
\* locks the shard (Get, Set, Del, PrintAll), works on it and unlocks it as
\* it returns.  Items locks nothing.  pc[t] is the call of goroutine t:
\*   at:   "Lock" (about to lock shard idx), "Body", "Push" (inside addItem,
\*         between the eviction and the PushFront), "Print", "Unlock",
\*         "Len" (inside Items of shard idx, about to read the list's
\*         length), "Done" (returned)
\*   n:    the running sum of the router's Items
\*   read: the length the last shard Items read, and ok: the lengths some
\*         order of that Items and the call holding the shard could give
Threads == {"t1", "t2"}
ThreadVals == {"1"}
ThreadShards == {1, 2}
SpreadHash == CHOOSE h \in HashFuncs : h["A"] # h["B"]

seqVars == <<c, now, ret, hist, inserted, evicted, live, bret, args>>

Started(op, key, val, idx, at) ==
    [op |-> op, key |-> key, val |-> val, idx |-> idx, at |-> at,
     res |-> Nil, err |-> Nil, n |-> 0, read |-> 0, ok |-> {0}]

Init_Conc ==
    /\ \E bs \in ThreadShards : combo = NewComboLRUCache(2, bs, 0, SpreadHash)
    /\ pc = [t \in Threads |-> Started("New", Nil, Nil, 0, "Done")]
    /\ lock = [i \in DOMAIN combo.caches |-> Unlocked]
    /\ c = NoCache
    /\ now = 0
    /\ ret = NoCall
    /\ bret = NoCall
    /\ args = NoArgs
    /\ hist = <<>>
    /\ inserted = <<>>
    /\ evicted = {}
    /\ live = EmptyMap

\* Goroutine t calls combo.Get / Del / Set: the key is routed, and the
\* shard's method is about to lock the shard.
Go_Get(t, key) ==
    /\ pc[t].at = "Done"
    /\ pc' = [pc EXCEPT ![t] = Started("Get", key, Nil, routeKey(combo, key), "Lock")]
    /\ UNCHANGED <<combo, lock, seqVars>>

Go_Del(t, key) ==
    /\ pc[t].at = "Done"
    /\ pc' = [pc EXCEPT ![t] = Started("Del", key, Nil, routeKey(combo, key), "Lock")]
    /\ UNCHANGED <<combo, lock, seqVars>>

Go_Set(t, key, val) ==
    /\ pc[t].at = "Done"
    /\ pc' = [pc EXCEPT ![t] = Started("Set", key, val, routeKey(combo, key), "Lock")]
    /\ UNCHANGED <<combo, lock, seqVars>>

\* Goroutine t calls combo.Items: the loop is at the first shard, inside its Items.
Go_Items(t) ==
    /\ pc[t].at = "Done"
    /\ pc' = [pc EXCEPT ![t] = Started("Items", Nil, Nil, 0, "Len")]
    /\ UNCHANGED <<combo, lock, seqVars>>

\* Goroutine t calls combo.PrintAll: the loop is at the first shard.
Go_PrintAll(t) ==
    /\ pc[t].at = "Done"
    /\ pc' = [pc EXCEPT ![t] = Started("PrintAll", Nil, Nil, 0, "Lock")]
    /\ UNCHANGED <<combo, lock, seqVars>>

\* c.Lock(): t gets the shard's Mutex when no goroutine holds it.
Acquire(t) ==
    LET idx == pc[t].idx
    IN  /\ pc[t].at = "Lock"
        /\ lock[idx].holder = Nil
        /\ lock' = [lock EXCEPT ![idx] = Mutex_Lock(t, combo.caches[idx])]
        /\ pc' = [pc EXCEPT ![t].at = IF pc[t].op = "PrintAll" THEN "Print" ELSE "Body"]
        /\ UNCHANGED <<combo, seqVars>>

\* The body of LRUCache.Get.
Get_Body(t) ==
    LET idx == pc[t].idx
        r == LRUCache_Get(combo.caches[idx], pc[t].key, now)
    IN  /\ pc[t].at = "Body"
        /\ pc[t].op = "Get"
        /\ combo' = [combo EXCEPT !.caches[idx] = r.c]
        /\ pc' = [pc EXCEPT ![t].res = r.res, ![t].err = r.err, ![t].at = "Unlock"]
        /\ UNCHANGED <<lock, seqVars>>

\* The body of LRUCache.Del.
Del_Body(t) ==
    LET idx == pc[t].idx
        r == LRUCache_Del(combo.caches[idx], pc[t].key)
    IN  /\ pc[t].at = "Body"
        /\ pc[t].op = "Del"
        /\ combo' = [combo EXCEPT !.caches[idx] = r.c]
        /\ pc' = [pc EXCEPT ![t].err = r.err, ![t].at = "Unlock"]
        /\ UNCHANGED <<lock, seqVars>>

\* The body of LRUCache.Set: a held key is updated; for a new key addItem
\* begins, and a full list loses its last element.
Set_Body(t) ==
    LET idx == pc[t].idx
        sh == combo.caches[idx]
    IN  /\ pc[t].at = "Body"
        /\ pc[t].op = "Set"
        /\ IF pc[t].key \in DOMAIN sh.store
           THEN /\ combo' = [combo EXCEPT !.caches[idx] = updateItem(sh, pc[t].key, pc[t].val)]
                /\ pc' = [pc EXCEPT ![t].at = "Unlock"]
           ELSE /\ combo' = [combo EXCEPT !.caches[idx] = addItem_Evict(sh)]
                /\ pc' = [pc EXCEPT ![t].at = "Push"]
        /\ UNCHANGED <<lock, seqVars>>

\* addItem goes on: the new item is pushed to the front.
Set_Push(t) ==
    LET idx == pc[t].idx
    IN  /\ pc[t].at = "Push"
        /\ combo' = [combo EXCEPT !.caches[idx] =
                        addItem_Push(combo.caches[idx], pc[t].key, pc[t].val, now)]
        /\ pc' = [pc EXCEPT ![t].at = "Unlock"]
        /\ UNCHANGED <<lock, seqVars>>

\* The body of LRUCache.PrintAll: the list is read front to back.
PrintAll_Body(t) ==
    /\ pc[t].at = "Print"
    /\ Len(LRUCache_PrintAll(combo.caches[pc[t].idx])) = Len(combo.caches[pc[t].idx].l)
    /\ pc' = [pc EXCEPT ![t].at = "Unlock"]
    /\ UNCHANGED <<combo, lock, seqVars>>

\* The deferred c.Unlock() runs and the shard's method returns; the router
\* returns too, or its PrintAll loop goes on to the next shard.
Release(t) ==
    LET idx == pc[t].idx
    IN  /\ pc[t].at = "Unlock"
        /\ lock' = [lock EXCEPT ![idx] = Mutex_Unlock(lock[idx])]
        /\ pc' = IF pc[t].op = "PrintAll" /\ idx + 1 < NumCaches(combo)
                 THEN [pc EXCEPT ![t].idx = idx + 1, ![t].at = "Lock"]
                 ELSE [pc EXCEPT ![t].at = "Done"]
        /\ UNCHANGED <<combo, seqVars>>

\* What the call p, made alone on shard sh, does to it and returns.
Sequential(p, sh) ==
    CASE p.op = "Get" -> LRUCache_Get(sh, p.key, now)
      [] p.op = "Set" -> [c |-> LRUCache_Set(sh, p.key, p.val, now).c, res |-> Nil,
                          err |-> LRUCache_Set(sh, p.key, p.val, now).err]
      [] p.op = "Del" -> [c |-> LRUCache_Del(sh, p.key).c, res |-> Nil,
                          err |-> LRUCache_Del(sh, p.key).err]
      [] OTHER -> [c |-> sh, res |-> Nil, err |-> Nil]

\* LRUCache.Items of shard idx, called by the router's loop: c.l.Len() is
\* read with no lock taken.  While another goroutine holds the shard the
\* read races with its writes: it yields the length as it is at this
\* moment or the length from before the holder's call.
Items_Len(t) ==
    LET idx == pc[t].idx
        lk == lock[idx]
        cur == LRUCache_Items(combo.caches[idx])
        outcomes == {cur} \cup (IF lk.holder = Nil THEN {} ELSE {LRUCache_Items(lk.pre)})
        inOrder == IF lk.holder = Nil
                   THEN {cur}
                   ELSE {LRUCache_Items(lk.pre),
                         LRUCache_Items(Sequential(pc[lk.holder], lk.pre).c)}
        more == idx + 1 < NumCaches(combo)
    IN  /\ pc[t].at = "Len"
        /\ \E n \in outcomes :
              pc' = [pc EXCEPT ![t].read = n,
                               ![t].ok = inOrder,
                               ![t].n = @ + n,
                               ![t].idx = IF more THEN idx + 1 ELSE idx,
                               ![t].at = IF more THEN "Len" ELSE "Done"]
        /\ UNCHANGED <<combo, lock, seqVars>>

\* A step of goroutine t inside a call, other than locking.
Step(t) ==
    \/ Get_Body(t)
    \/ Del_Body(t)
    \/ Set_Body(t)
    \/ Set_Push(t)
    \/ PrintAll_Body(t)
    \/ Release(t)
    \/ Items_Len(t)

Next_Conc ==
    \E t \in Threads :
        \/ \E key \in Keys : Go_Get(t, key)
        \/ \E key \in Keys : Go_Del(t, key)
        \/ \E key \in Keys, val \in ThreadVals : Go_Set(t, key, val)
        \/ Go_Items(t)
        \/ Go_PrintAll(t)
        \/ Acquire(t)
        \/ Step(t)

Spec_Conc == Init_Conc /\ [][Next_Conc]_vars

\* Fair scheduling: a goroutine that can take a step inside its call
\* eventually takes it, and a goroutine waiting for a Mutex that is unlocked
\* again and again eventually gets it (sync.Mutex hands the lock to a waiter
\* that has waited long).  Nothing obliges a goroutine to make another call.
Spec_ConcFair ==
    /\ Spec_Conc
    /\ \A t \in Threads : WF_vars(Step(t)) /\ SF_vars(Acquire(t))

\* ================================================================ claims

\* C1: after any sequence of Get and Set calls on a cache of capacity N, the
\* number of items reported is at most N and the number of keys the cache
\* still holds an entry for is at most N.
C1_CapacityInvariant ==
    /\ Len(c.l) <= c.sz
    /\ c.count <= c.sz
    /\ Cardinality(DOMAIN c.store) <= c.sz

\* C2: a key evicted by capacity pressure and not Set again since is in
\* neither the map nor the list, and a Get of it fails with ErrItemNotFound
\* and returns no value; a Get of a retained key returns the value last Set.
\* With capacity 2 and Set(A,1), Set(B,2), Set(C,3): two items, Get(A) fails,
\* Get(B) is 2 and Get(C) is 3.  (Stated of the Get of unnamed/part_001.)
C2_EvictionRemovesKey_001 ==
    /\ \A k \in evicted :
          /\ k \notin DOMAIN c.store
          /\ k \notin Range(c.l)
          /\ LRUCache_Get_001(c, k, now).err = ErrItemNotFound
          /\ LRUCache_Get_001(c, k, now).res = Nil
    /\ \A k \in DOMAIN live :
          /\ LRUCache_Get_001(c, k, now).err = Nil
          /\ LRUCache_Get_001(c, k, now).res = live[k]
    /\ (inserted = <<<<"A", "1">>, <<"B", "2">>, <<"C", "3">>>> /\ c.sz = 2) =>
          /\ c.count = 2
          /\ Len(c.l) = 2
          /\ LRUCache_Get_001(c, "A", now).err = ErrItemNotFound
          /\ LRUCache_Get_001(c, "B", now).res = "2"
          /\ LRUCache_Get_001(c, "C", now).res = "3"

\* The same of the Get of cache.go (holds there).
EvictionRemovesKey ==
    /\ \A k \in evicted :
          /\ k \notin DOMAIN c.store
          /\ k \notin Range(c.l)
          /\ LRUCache_Get(c, k, now).err = ErrItemNotFound
          /\ LRUCache_Get(c, k, now).res = Nil
    /\ \A k \in DOMAIN live :
          /\ LRUCache_Get(c, k, now).err = Nil
          /\ LRUCache_Get(c, k, now).res = live[k]
    /\ (inserted = <<<<"A", "1">>, <<"B", "2">>, <<"C", "3">>>> /\ c.sz = 2) =>
          /\ LRUCache_Items(c) = 2
          /\ LRUCache_Get(c, "A", now).err = ErrItemNotFound
          /\ LRUCache_Get(c, "B", now).res = "2"
          /\ LRUCache_Get(c, "C", now).res = "3"

\* C3: after Set on N + k distinct keys (k >= 1) of an empty cache of
\* capacity N and nothing else, there are N items, the first k keys are gone
\* and the list holds the last N keys, the most recently inserted first.
C3_ExactEvictionSet ==
    (inserted # Mixed /\ Len(inserted) > c.sz) =>
        LET n == Len(inserted)
            lastN == [i \in 1..c.sz |-> inserted[n + 1 - i]]
        IN  /\ LRUCache_Items(c) = c.sz
            /\ c.count = c.sz
            /\ c.l = [i \in 1..c.sz |-> lastN[i][1]]
            /\ DOMAIN c.store = {lastN[i][1] : i \in 1..c.sz}
            /\ LRUCache_PrintAll(c) = [i \in 1..c.sz |-> lastN[i][2]]
            /\ \A i \in 1..(n - c.sz) :
                  /\ inserted[i][1] \notin DOMAIN c.store
                  /\ LRUCache_Get(c, inserted[i][1], now).err = ErrItemNotFound

\* N + 2 distinct keys were Set and nothing else.
C3_Witness == inserted # Mixed /\ Len(inserted) >= c.sz + 2

\* The key of hist that is in the map of cache and was touched longest ago.
OldestPresent(cache, h) ==
    LET present == {i \in 1..Len(h) : h[i] \in DOMAIN cache.store}
    IN  h[CHOOSE i \in present : \A j \in present : j <= i]

\* C4: every Get that returns no error moves its key's entry to the front of
\* the list, and the entry a Set of a new key takes out of a full cache is
\* the one whose last Get or Set without error is oldest: not the entry just
\* read when the cache holds another one.
C4_RecencyPromotion ==
    [][now' = now =>
        /\ (ret'.op = "Get" /\ ret'.err = Nil) =>
              /\ Len(c'.l) > 0
              /\ c'.l[1] = ret'.key
        /\ (ret'.op = "Set" /\ ~ret'.had /\ LRUCache_Items(c) >= c.sz) =>
              /\ ret'.gone = {OldestPresent(c, hist)}
              /\ ret'.unlinked = ret'.gone
              /\ (ret.op = "Get" /\ ret.err = Nil /\ LRUCache_Items(c) >= 2) =>
                     ret.key \notin ret'.gone
    ]_vars

\* The same for the Gets that find an entry no older than the expiry (holds).
RecencyPromotionUnexpired ==
    [][now' = now =>
        /\ (ret'.op = "Get" /\ ret'.err = Nil /\ ~ret'.aged) =>
              /\ Len(c'.l) > 0
              /\ c'.l[1] = ret'.key
        /\ (ret'.op = "Set" /\ ~ret'.had /\ LRUCache_Items(c) >= c.sz) =>
              /\ ret'.gone = {OldestPresent(c, hist)}
              /\ ret'.unlinked = ret'.gone
              /\ (ret.op = "Get" /\ ret.err = Nil /\ LRUCache_Items(c) >= 2) =>
                     ret.key \notin ret'.gone
    ]_vars

\* C5: a Get made right after a Set of the same key, whatever the state the
\* Set was made in and whatever the time between the two, returns the value
\* Set and no error.
C5_RoundTrip ==
    (ret.op = "Get" /\ ret.prevSet # Nil) =>
        /\ ret.res = ret.prevSet
        /\ ret.err = Nil

\* A Get right after the Set of a key the full cache already held.
C5_Witness ==
    /\ ret.op = "Get"
    /\ ret.prevSet # Nil
    /\ ret.had
    /\ c.sz = 2
    /\ LRUCache_Items(c) = c.sz

\* C6: a Get of a key whose item is older than the expiry fails with
\* ErrItemNotFound, returns no value and takes the entry out of the map and
\* the list; a Get of a key whose item is no older than the expiry is a hit.
C6_Expiry ==
    (ret.op = "Get" /\ ret.had) =>
        IF ret.aged
        THEN /\ ret.err = ErrItemNotFound
             /\ ret.res = Nil
             /\ ret.gone = {ret.key}
             /\ ret.unlinked = {ret.key}
             /\ ret.key \notin DOMAIN c.store
             /\ ret.key \notin Range(c.l)
        ELSE /\ ret.err = Nil
             /\ ret.res # Nil
             /\ ret.gone = {}
             /\ ret.key \in DOMAIN c.store

\* The same but for what Get returns: the structures lose the aged entry (holds).
ExpiryRemovesEntry ==
    (ret.op = "Get" /\ ret.had) =>
        IF ret.aged
        THEN /\ ret.gone = {ret.key}
             /\ ret.unlinked = {ret.key}
             /\ ret.key \notin DOMAIN c.store
             /\ ret.key \notin Range(c.l)
        ELSE /\ ret.err = Nil
             /\ ret.res # Nil
             /\ ret.gone = {}
             /\ ret.key \in DOMAIN c.store

\* C7: a Get that hits and a Set of a key the cache holds both renew the
\* item's timestamp, so that a Get of a key whose last Get or Set without
\* error was no longer ago than the expiry does not treat the entry as
\* expired, however long ago the key was first Set.
C7_TimestampRefresh ==
    [][(/\ now' = now
        /\ ret'.op = "Get"
        /\ ret.op \in {"Get", "Set"}
        /\ ret.err = Nil
        /\ ret.key = ret'.key
        /\ ret.key \in DOMAIN c.store
        /\ now - ret.at <= c.expiry) =>
            /\ ret'.gone = {}
            /\ ret'.key \in Range(c'.l)
    ]_vars

\* The timestamp itself: after a Get that hits or a Set of a key the cache
\* holds, the item's timestamp is the time of the call (fails in cache.go).
TimestampIsCallTime ==
    [][(/\ now' = now
        /\ ret'.op \in {"Get", "Set"}
        /\ ret'.had
        /\ ret'.key \in DOMAIN c'.store) =>
            c'.store[ret'.key].ts = now
    ]_vars

\* C8: a Set of a key the cache holds stores the value, moves the entry to
\* the front, takes no entry out and leaves the count, the other items and
\* the order of the other entries as they were.
C8_SetExistingKey ==
    [][(now' = now /\ ret'.op = "Set" /\ ret'.had) =>
        LET k == ret'.key
        IN  /\ c'.count = c.count
            /\ LRUCache_Items(c') = LRUCache_Items(c)
            /\ DOMAIN c'.store = DOMAIN c.store
            /\ ret'.gone = {}
            /\ ret'.unlinked = {}
            /\ c'.store[k].val = ret'.val
            /\ c'.l = <<k>> \o Remove(c.l, k)
            /\ \A j \in DOMAIN c.store \ {k} : c'.store[j] = c.store[j]
    ]_vars

\* A Set of a key that a full cache of two holds, now at the front.
C8_Witness ==
    /\ ret.op = "Set"
    /\ ret.had
    /\ c.sz = 2
    /\ c.count = c.sz
    /\ c.l[1] = ret.key
    /\ c.store[ret.key].val = ret.val

\* C9: the shard of a key is hash(key) mod the number of shards, and neither
\* changes; every key sits in the shard so selected and in no other; and a
\* router Get of a key that was Set and has not left its shard's list since
\* returns the value last Set, whatever was done to other keys and shards.
C9_RoutingStability ==
    /\ [](/\ \A i \in DOMAIN combo.caches :
                \A k \in DOMAIN combo.caches[i].store \cup Range(combo.caches[i].l) :
                    combo.hash[k] % NumCaches(combo) = i
          /\ \A k \in DOMAIN live :
                /\ ComboLRUCache_Get(combo, k, now).err = Nil
                /\ ComboLRUCache_Get(combo, k, now).res = live[k]
          /\ (ret.op = "Get" /\ ret.key \in DOMAIN live) =>
                /\ ret.err = Nil
                /\ ret.res = live[ret.key])
    /\ [][/\ combo'.hash = combo.hash
          /\ DOMAIN combo'.caches = DOMAIN combo.caches
          /\ \A k \in Keys : routeKey(combo', k) = routeKey(combo, k)]_vars

\* A Get of a key held by the second of two shards, the first holding another.
C9_Witness ==
    /\ NumCaches(combo) = 2
    /\ ret.op = "Get"
    /\ ret.key \in DOMAIN live
    /\ ret.res = live[ret.key]
    /\ combo.hash[ret.key] % 2 = 1
    /\ ret.key \in DOMAIN combo.caches[1].store
    /\ combo.caches[0].count > 0

\* C10: a router of one shard and size S and a bare cache of capacity S and
\* the same expiry, given the same calls, return the same values and errors
\* and report the same number of items after every call.
C10_SingleShardEquivalence ==
    /\ NumCaches(combo) = 1
    /\ ret.op = bret.op
    /\ ret.key = bret.key
    /\ ret.res = bret.res
    /\ ret.err = bret.err
    /\ ComboLRUCache_Items(combo) = LRUCache_Items(c)
    /\ \A k \in Keys :
          /\ ComboLRUCache_Get(combo, k, now).res = LRUCache_Get(c, k, now).res
          /\ ComboLRUCache_Get(combo, k, now).err = LRUCache_Get(c, k, now).err

\* Both were asked for a key whose item was older than the expiry.
C10_Witness ==
    /\ c # NoCache
    /\ ret.op = "Get"
    /\ ret.aged
    /\ bret.aged
    /\ ret.res = bret.res
    /\ LRUCache_Items(c) = 1

\* The list, the map and the counter of a shard describe the same entries.
StructureConsistent(cache) ==
    /\ Len(cache.l) = Cardinality(DOMAIN cache.store)
    /\ Len(cache.l) = cache.count
    /\ \A k \in DOMAIN cache.store : k \in Range(cache.l)
    /\ \A i \in 1..Len(cache.l) : cache.l[i] \in DOMAIN cache.store
    /\ \A i, j \in 1..Len(cache.l) : cache.l[i] = cache.l[j] => i = j

\* C14: between calls, after any sequence of Gets, Sets and the evictions
\* they cause, the length of the list, the size of the map and the counter
\* are equal, every key of the map points to a linked element, and every
\* linked element is the target of exactly one key of the map.
C14_StructureConsistency == StructureConsistent(c)

\* C18: in a cache built with expiry 0, a Get treats no entry as expired,
\* however old the entry is: a Get of a held key returns no error and leaves
\* the entry in, at the front; and an entry leaves the cache only as the
\* last of the list of a full cache into which a new key is Set.
C18_NoExpiryWithoutTTL ==
    [][(c.expiry = 0 /\ now' = now) =>
        /\ (ret'.op = "Get" /\ ret'.had) =>
              /\ ret'.err = Nil
              /\ DOMAIN c'.store = DOMAIN c.store
              /\ c'.l = <<ret'.key>> \o Remove(c.l, ret'.key)
              /\ c'.count = c.count
        /\ \A k \in DOMAIN c.store \ DOMAIN c'.store :
              /\ ret'.op = "Set"
              /\ ~ret'.had
              /\ c.count >= c.sz
              /\ k = Back(c.l)
    ]_vars

\* With expiry 0, an entry as old as the clock allows was read and is still held.
C18_Witness ==
    /\ c.expiry = 0
    /\ ret.op = "Get"
    /\ ret.had
    /\ ret.at = now
    /\ ret.key \in DOMAIN c.store
    /\ now - c.store[ret.key].ts = MaxTime

\* The item of key k is older than the expiry of the cache at time t.
Aged(cache, k, t) ==
    /\ k \in DOMAIN cache.store
    /\ cache.expiry > 0
    /\ t - cache.store[k].ts > cache.expiry

\* C20: an entry older than the expiry leaves the cache for its age only in
\* a Get of its own key.  Time passing, Items, a Set of any key and a Get of
\* another key take no entry out for its age: the only other way out is as
\* the last of the list of a full cache into which a new key is Set, aged
\* entries elsewhere in the list or not.  Until then the aged entry is
\* counted by Items and takes up capacity.
C20_LazyExpiry ==
    /\ [](LRUCache_Items(c) = Cardinality(DOMAIN c.store))
    /\ [][/\ now' # now => c' = c
          /\ now' = now =>
              /\ ret'.op = "Items" => (c' = c /\ ret'.res = Cardinality(DOMAIN c.store))
              /\ (ret'.op = "Set" /\ ~ret'.had) =>
                    /\ DOMAIN c.store \ DOMAIN c'.store =
                          IF c.count >= c.sz THEN {Back(c.l)} ELSE {}
                    /\ c'.count = IF c.count >= c.sz THEN c.sz ELSE c.count + 1
              /\ \A k \in DOMAIN c.store \ DOMAIN c'.store :
                    \/ ret'.op = "Get" /\ ret'.key = k /\ Aged(c, k, now)
                    \/ ret'.op = "Set" /\ ~ret'.had /\ c.count >= c.sz /\ k = Back(c.l)
         ]_vars

\* A new key was Set into a full cache and the last entry was evicted, while
\* an entry older than the expiry is still held and counted.
C20_Witness ==
    /\ ret.op = "Set"
    /\ ~ret.had
    /\ ret.at = now
    /\ ret.gone # {}
    /\ \E k \in DOMAIN c.store \ {ret.key} : Aged(c, k, now)
    /\ LRUCache_Items(c) = c.sz

Max(a, b) == IF a >= b THEN a ELSE b

\* C16: a router asked for size S and B shards, zero and negative values
\* included, has exactly max(B, 1) shards, each of capacity
\* floor(max(S, shards) / shards), which is at least 1 (never the size the
\* shard constructor refuses); and the number of items it reports never
\* exceeds shards * capacity, which is at most max(S, shards).
C16_RouterCapacity ==
    LET B == Max(args.bs, 1)
        S == Max(args.sz, B)
    IN  /\ NumCaches(combo) = B
        /\ DOMAIN combo.caches = 0..(B - 1)
        /\ \A i \in DOMAIN combo.caches :
              /\ combo.caches[i].sz = S \div B
              /\ combo.caches[i].sz >= 1
        /\ ComboLRUCache_Items(combo) <= B * (S \div B)
        /\ ret.op = "Items" => ret.res <= B * (S \div B)
        /\ B * (S \div B) <= S

\* A router asked for size 3 and 2 shards reported 2 items, all it can hold.
C16_Witness ==
    /\ args.sz = 3
    /\ args.bs = 2
    /\ ret.op = "Items"
    /\ ret.res = 2
    /\ \A i \in DOMAIN combo.caches : combo.caches[i].count = combo.caches[i].sz

\* C17: a router Del of a key goes to the shard hash(key) mod the number of
\* shards and returns what that shard's Del returns.  If the shard holds
\* the key, the entry leaves its map and its list, the shard and the router
\* report one item less, no error is returned and a Get of the key that
\* follows fails with ErrItemNotFound; if it does not, the call fails with
\* ErrItemNotFound and changes nothing.
C17_Delete ==
    [][(now' = now /\ ret'.op = "Del") =>
        LET k == ret'.key
            idx == combo.hash[k] % NumCaches(combo)
            sh == combo.caches[idx]
            sh2 == combo'.caches[idx]
        IN  /\ \A i \in DOMAIN combo.caches \ {idx} : combo'.caches[i] = combo.caches[i]
            /\ ret'.err = LRUCache_Del(sh, k).err
            /\ IF k \in DOMAIN sh.store
               THEN /\ ret'.err = Nil
                    /\ DOMAIN sh2.store = DOMAIN sh.store \ {k}
                    /\ sh2.l = Remove(sh.l, k)
                    /\ k \notin Range(sh2.l)
                    /\ \A j \in DOMAIN sh2.store : sh2.store[j] = sh.store[j]
                    /\ LRUCache_Items(sh2) = LRUCache_Items(sh) - 1
                    /\ ComboLRUCache_Items(combo') = ComboLRUCache_Items(combo) - 1
                    /\ ComboLRUCache_Get(combo', k, now).err = ErrItemNotFound
               ELSE /\ ret'.err = ErrItemNotFound
                    /\ combo' = combo
    ]_vars

\* A key held by the second of two shards was deleted, the first holding another.
C17_Witness ==
    /\ NumCaches(combo) = 2
    /\ ret.op = "Del"
    /\ ret.had
    /\ ret.err = Nil
    /\ combo.hash[ret.key] % 2 = 1
    /\ ret.key \notin DOMAIN combo.caches[1].store
    /\ combo.caches[0].count > 0

\* C19: a router Get, Set or Del of a key changes no shard but the one at
\* hash(key) mod the number of shards, and Items changes none; no key is in
\* two shards; and the Set of a key its shard does not hold takes an entry
\* out exactly when that shard is full, and then the last of that shard's
\* list, whether or not other shards have room.
C19_ShardIsolation ==
    /\ [](\A k \in Keys :
             Cardinality({i \in DOMAIN combo.caches :
                 k \in DOMAIN combo.caches[i].store \cup Range(combo.caches[i].l)}) <= 1)
    /\ [][now' = now =>
          /\ ret'.op = "Items" => combo' = combo
          /\ ret'.op \in {"Get", "Set", "Del"} =>
              LET k == ret'.key
                  idx == combo.hash[k] % NumCaches(combo)
                  sh == combo.caches[idx]
                  sh2 == combo'.caches[idx]
              IN  /\ \A i \in DOMAIN combo.caches \ {idx} : combo'.caches[i] = combo.caches[i]
                  /\ (ret'.op = "Set" /\ k \notin DOMAIN sh.store) =>
                        /\ k \in DOMAIN sh2.store
                        /\ DOMAIN sh.store \ DOMAIN sh2.store =
                              IF LRUCache_Items(sh) >= sh.sz THEN {Back(sh.l)} ELSE {}
                        /\ Range(sh.l) \ Range(sh2.l) = DOMAIN sh.store \ DOMAIN sh2.store
         ]_vars

\* A new key was Set into a full shard, which lost its last entry while the
\* other shard had room.
C19_Witness ==
    /\ NumCaches(combo) = 2
    /\ ret.op = "Set"
    /\ ~ret.had
    /\ ret.gone # {}
    /\ ret.at = now
    /\ \E i \in DOMAIN combo.caches : /\ ret.key \notin DOMAIN combo.caches[i].store
                                      /\ combo.caches[i].count < combo.caches[i].sz

\* Goroutine t is at a step that reads or writes the map, list or counter of shard i.
Inside(t, i) ==
    /\ pc[t].idx = i
    /\ pc[t].at \in {"Body", "Push", "Print", "Len"}

\* Goroutine t holds shard i for a Get, Set or Del, which write its state.
Writing(t, i) ==
    /\ pc[t].idx = i
    /\ pc[t].at \in {"Body", "Push"}

\* C11: while a Get, Set or Del is inside the state of a shard, no call of
\* another goroutine is inside it: in particular no Items is reading the
\* list of a shard while a Get or a Set is at work on it.
C11_MutualExclusion ==
    \A i \in DOMAIN combo.caches :
        \A t1, t2 \in Threads : (t1 # t2 /\ Writing(t1, i)) => ~Inside(t2, i)

\* Get, Set, Del and PrintAll are inside a shard only while holding its lock.
LockedCallsExclude ==
    \A i \in DOMAIN combo.caches :
        \A t \in Threads :
            (Inside(t, i) /\ pc[t].op # "Items") => lock[i].holder = t

\* C12: the calls on a shard behave as if made one at a time in the order
\* in which they took the lock: a Get, Set or Del that has done its work
\* returns, and leaves the shard in, what the same call made alone on the
\* shard as it found it returns and leaves; and the length an Items reads
\* is the length before or after the call at work on the shard.
C12_Linearizable ==
    \A t \in Threads :
        /\ (pc[t].at = "Unlock" /\ pc[t].op \in {"Get", "Set", "Del"}) =>
              LET s == Sequential(pc[t], lock[pc[t].idx].pre)
              IN  /\ combo.caches[pc[t].idx] = s.c
                  /\ pc[t].res = s.res
                  /\ pc[t].err = s.err
        /\ pc[t].read \in pc[t].ok

\* The same without Items: holds.
LockedCallsLinearizable ==
    \A t \in Threads :
        (pc[t].at = "Unlock" /\ pc[t].op \in {"Get", "Set", "Del"}) =>
            LET s == Sequential(pc[t], lock[pc[t].idx].pre)
            IN  /\ combo.caches[pc[t].idx] = s.c
                /\ pc[t].res = s.res
                /\ pc[t].err = s.err

\* The indices a shard can have, and whether the lock of shard i is held.
ShardIds == {bs - 1 : bs \in ThreadShards}
Held(i) == i \in DOMAIN lock /\ lock[i].holder # Nil

\* C13: no goroutine ever holds the locks of two shards, whatever it calls
\* (the router's Items and PrintAll, which visit every shard, included);
\* and under fair scheduling every call that was started returns, and every
\* lock that was taken is released.
C13_DeadlockFreedom ==
    /\ [](\A t \in Threads :
             Cardinality({i \in DOMAIN lock : lock[i].holder = t}) <= 1)
    /\ \A t \in Threads : (pc[t].at # "Done") ~> (pc[t].at = "Done")
    /\ \A i \in ShardIds : Held(i) ~> ~Held(i)

\* One goroutine's PrintAll holds the second shard while another goroutine
\* waits for that shard's lock.
C13_Witness ==
    /\ NumCaches(combo) = 2
    /\ \E t1, t2 \in Threads :
          /\ pc[t1].op = "PrintAll"
          /\ pc[t1].idx = 1
          /\ lock[1].holder = t1
          /\ pc[t2].at = "Lock"
          /\ pc[t2].idx = 1
=============================================================================
